---- MODULE Spec2Model ----
(***************************************************************************)
(* Model of the search4people workflow engine (src/src/langgraph_flow.py) *)
(* and of the capabilities it calls (src/src/tools.py, src/src/llm.py).   *)
(*                                                                         *)
(* Representation.                                                         *)
(*  - A Python string is a sequence of characters (one-character TLA+     *)
(*    strings); literal text of the source that is only ever copied or    *)
(*    compared as a whole (messages, query suffixes, plan steps) is kept  *)
(*    as one element.  " " is the whitespace character.                   *)
(*  - An optional value is a sequence of length 0 (None / key missing) or *)
(*    1 (the value): None == <<>>, Some(v) == <<v>>.                      *)
(*  - A dict with free keys (inputs) is the sequence of its <<key, value>>*)
(*    items; a candidate is a record of its four keys.                    *)
(*  - The workflow state (FlowState plus the user_decision key the nodes  *)
(*    read) is a record of optional fields.                               *)
(***************************************************************************)
EXTENDS Naturals, Integers, Sequences, FiniteSets, TLC

(* ---------------------------------------------------------------------- *)
(* Bounds of the model                                                     *)
(* ---------------------------------------------------------------------- *)
MaxCalls == 3

MaxRaw == 2

(* ---------------------------------------------------------------------- *)
(* Optional values and Python truthiness                                   *)
(* ---------------------------------------------------------------------- *)
None == <<>>

Some(v) == <<v>>

IsSet(o) == o # <<>>

Val(o) == o[1]

\* bool(x) of an optional sequence-like value (str, list, dict-as-items):
\* None and the empty value are falsy.
Truthy(o) == IsSet(o) /\ Val(o) # <<>>

\* bool(x) of an optional record-valued dict with a fixed non-empty key set.
TruthyRec(o) == IsSet(o)

\* bool(x) of an optional boolean.
TruthyBool(o) == IsSet(o) /\ Val(o)

\* (x or "") for an optional string.
OrEmpty(o) == IF Truthy(o) THEN Val(o) ELSE <<>>

(* ---------------------------------------------------------------------- *)
(* Strings                                                                 *)
(* ---------------------------------------------------------------------- *)
SetMin(S) == CHOOSE x \in S : \A y \in S : x <= y

SetMax(S) == CHOOSE x \in S : \A y \in S : x >= y

\* str.strip(): drop leading and trailing whitespace.
Strip(s) ==
    LET keep == {i \in 1..Len(s) : s[i] # " "}
    IN  IF keep = {} THEN <<>> ELSE SubSeq(s, SetMin(keep), SetMax(keep))

LowerChar(c) ==
    CASE c = "Y" -> "y"
      [] c = "E" -> "e"
      [] c = "S" -> "s"
      [] c = "N" -> "n"
      [] c = "O" -> "o"
      [] OTHER -> c

\* str.lower()
Lower(s) == [i \in 1..Len(s) |-> LowerChar(s[i])]

RECURSIVE Join(_)
\* " ".join(parts)
Join(parts) ==
    IF parts = <<>> THEN <<>>
    ELSE IF Len(parts) = 1 THEN parts[1]
    ELSE parts[1] \o <<" ">> \o Join(Tail(parts))

\* str(v) of an optional string, as an f-string formats it.
StrOf(o) == IF IsSet(o) THEN Val(o) ELSE <<"N", "o", "n", "e">>

(* ---------------------------------------------------------------------- *)
(* Dicts as item sequences                                                 *)
(* ---------------------------------------------------------------------- *)
HasKey(d, k) == \E i \in 1..Len(d) : d[i][1] = k

\* d.get(k): the value, None when the key is missing (values are optional
\* strings, so a stored None and a missing key read the same).
Get(d, k) ==
    IF HasKey(d, k) THEN d[CHOOSE i \in 1..Len(d) : d[i][1] = k][2] ELSE None

\* f"{d.get(k, '')}": the default applies only when the key is missing.
GetFmt(d, k) == IF HasKey(d, k) THEN StrOf(Get(d, k)) ELSE <<>>

(* ---------------------------------------------------------------------- *)
(* Literal text of the source                                              *)
(* ---------------------------------------------------------------------- *)
InputKeys == <<"first_name", "last_name", "surname", "phone">>

QuerySuffixes == <<" linkedin", " github", " twitter", " facebook">>

MaxQueries == 5

PlanSteps ==
    << <<"Create person search plan">>,
       <<"Execute search and prepare candidates">>,
       <<"Request user confirmation on best candidate">>,
       <<"Collect details on confirmed candidate">>,
       <<"Prepare report and store in DB">> >>

MsgExhausted == <<"Exhausted candidates without a match.">>

MsgNoCandidates == <<"No candidates found. Adjust search terms and try again.">>

YesTokensAndCollect ==
    { <<"y", "e", "s">>, <<"y">>, <<"m", "a", "t", "c", "h">>, <<"t", "r", "u", "e">>,
      <<"c", "o", "l", "l", "e", "c", "t">> }

YesTokens ==
    { <<"y", "e", "s">>, <<"y">>, <<"m", "a", "t", "c", "h">>, <<"t", "r", "u", "e">> }

NoTokens ==
    { <<"n", "o">>, <<"n">>, <<"n", "e", "x", "t">>, <<"f", "a", "l", "s", "e">> }

DecCollect == <<"c", "o", "l", "l", "e", "c", "t">>

DecReport == <<"r", "e", "p", "o", "r", "t">>

InitialMaxResults == 5

BroadenedMaxResults == 3

(* ---------------------------------------------------------------------- *)
(* _make_queries                                                           *)
(* ---------------------------------------------------------------------- *)
Take(s, n) == SubSeq(s, 1, IF Len(s) < n THEN Len(s) ELSE n)

\* (inputs or {})
OrEmptyDict(inputs) == IF Truthy(inputs) THEN Val(inputs) ELSE <<>>

RECURSIVE QueryParts(_, _)
\* the loop over the four keys: every truthy value is appended, stripped
QueryParts(d, keys) ==
    IF keys = <<>> THEN <<>>
    ELSE LET v == OrEmpty(Get(d, Head(keys)))
         IN  (IF v # <<>> THEN << Strip(v) >> ELSE <<>>) \o QueryParts(d, Tail(keys))

QueryBase(inputs) == Strip(Join(QueryParts(OrEmptyDict(inputs), InputKeys)))

\* queries[:5], preceded by an off-by-one variant of the slice
TruncateQueriesOffByOne(queries) == Take(queries, MaxQueries + 1)

TruncateQueries(queries) == Take(queries, MaxQueries)

MakeQueries(inputs) ==
    LET d == OrEmptyDict(inputs)
        base == QueryBase(inputs)
        sites == [i \in 1..Len(QuerySuffixes) |-> base \o << QuerySuffixes[i] >>]
        phone == IF Truthy(Get(d, "phone"))
                 THEN << base \o <<" phone ">> \o Val(Get(d, "phone")) >>
                 ELSE <<>>
        queries == IF base # <<>> THEN << base >> \o sites \o phone ELSE <<>>
    IN  TruncateQueries(queries)

(* ---------------------------------------------------------------------- *)
(* search_duckduckgo and _search_candidates                                *)
(* ---------------------------------------------------------------------- *)
\* A raw result is what search_duckduckgo returns for one hit:
\* [title, href, body], each optional.  web[i] is the list of raw results
\* the search capability gives for the i-th query of a pass.
Candidate(r, href, q) ==
    [title |-> r.title, url |-> href, snippet |-> r.body, source_query |-> q]

\* the per-result test of the inner loop, preceded by a variant that tests
\* the raw href instead of the stripped one
SkipResultRaw(r, href, seen) == OrEmpty(r.href) = <<>> \/ OrEmpty(r.href) \in seen

SkipResult(r, href, seen) == href = <<>> \/ href \in seen

RECURSIVE ScanResults(_, _, _)
\* inner loop: acc = [cands, seen]
ScanResults(res, q, acc) ==
    IF res = <<>> THEN acc
    ELSE LET r == Head(res)
             href == Strip(OrEmpty(r.href))
         IN  IF SkipResult(r, href, acc.seen)
             THEN ScanResults(Tail(res), q, acc)
             ELSE ScanResults(Tail(res), q,
                     [cands |-> Append(acc.cands, Candidate(r, href, q)),
                      seen |-> acc.seen \cup {href}])

RECURSIVE ScanQueries(_, _, _, _)
\* outer loop over the queries, from position i on
ScanQueries(queries, web, i, acc) ==
    IF i > Len(queries) THEN acc
    ELSE ScanQueries(queries, web, i + 1, ScanResults(web[i], queries[i], acc))

SearchCandidates(queries, web) ==
    ScanQueries(queries, web, 1, [cands |-> <<>>, seen |-> {}]).cands

(* ---------------------------------------------------------------------- *)
(* fetch_url_title and _collect_details                                    *)
(* ---------------------------------------------------------------------- *)
\* fetched is the outcome of fetch_url_title: None (requests missing, bad
\* status, no <title>, any exception) or the stripped title text.
CollectDetailsOverwrites(candidate, fetched) ==
    IF Truthy(fetched) THEN [candidate EXCEPT !.title = fetched] ELSE candidate

CollectDetails(candidate, fetched) ==
    IF Truthy(fetched) /\ ~Truthy(candidate.title)
    THEN [candidate EXCEPT !.title = fetched]
    ELSE candidate

(* ---------------------------------------------------------------------- *)
(* Workflow state and the nodes of the graph                               *)
(* ---------------------------------------------------------------------- *)
EmptyState ==
    [inputs |-> None, plan |-> None, candidates |-> None,
     current_index |-> None, selected |-> None, details |-> None,
     summary |-> None, queries |-> None, report |-> None,
     awaiting_user |-> None, user_decision |-> None]

\* (state.get("user_decision") or "").strip().lower()
NormDecision(s) == Lower(Strip(OrEmpty(s.user_decision)))

\* state.get("candidates") or []
CandidatesOf(s) == IF Truthy(s.candidates) THEN Val(s.candidates) ELSE <<>>

\* int(state.get("current_index") or 0)
IndexOf(s) == IF IsSet(s.current_index) THEN Val(s.current_index) ELSE 0

SummaryOfUrl(sel) == Some(sel.url)

\* sel.get("title") or sel.get("url")
SummaryOf(sel) == IF Truthy(sel.title) THEN sel.title ELSE Some(sel.url)

\* c is the argument mapping of one invocation:
\* [inputs, prior_state, user_decision], each optional.
NodeIngest(c) ==
    IF IsSet(c.prior_state)
    THEN LET prior == Val(c.prior_state)
             m1 == IF IsSet(c.inputs) THEN [prior EXCEPT !.inputs = c.inputs] ELSE prior
         IN  IF IsSet(c.user_decision)
             THEN [m1 EXCEPT !.user_decision = c.user_decision]
             ELSE m1
    ELSE [EmptyState EXCEPT !.inputs = c.inputs, !.user_decision = c.user_decision]

NodePlannerAlways(s) ==
    IF ~Truthy(s.plan) THEN [s EXCEPT !.plan = Some(PlanSteps)] ELSE s

NodePlanner(s) ==
    IF Truthy(s.inputs) /\ ~Truthy(s.plan)
    THEN [s EXCEPT !.plan = Some(PlanSteps)]
    ELSE s

SearcherRunsNoInputs(s) == ~Truthy(s.candidates)

SearcherRuns(s) == ~Truthy(s.candidates) /\ Truthy(s.inputs)

NodeSearcherKeepsIndex(s, web) ==
    IF SearcherRuns(s)
    THEN LET queries == MakeQueries(s.inputs)
         IN  [s EXCEPT !.queries = Some(queries),
                       !.candidates = Some(SearchCandidates(queries, web))]
    ELSE s

NodeSearcher(s, web) ==
    IF SearcherRuns(s)
    THEN LET queries == MakeQueries(s.inputs)
         IN  [s EXCEPT !.queries = Some(queries),
                       !.candidates = Some(SearchCandidates(queries, web)),
                       !.current_index = Some(0)]
    ELSE s

\* the _search_candidates call the searcher makes, as a log entry
SearcherPasses(s, web) ==
    IF SearcherRuns(s)
    THEN << [kind |-> "initial", queries |-> MakeQueries(s.inputs),
             max_results |-> InitialMaxResults,
             found |-> Len(SearchCandidates(MakeQueries(s.inputs), web))] >>
    ELSE <<>>

RouteAfterSearchNoGuard(s) ==
    LET d == NormDecision(s)
    IN  IF TruthyRec(s.selected) /\ d \in {DecCollect, DecReport}
        THEN (IF d = DecCollect THEN "collector" ELSE "reporter")
        ELSE IF CandidatesOf(s) = <<>> THEN "finish"
        ELSE IF d = <<>> THEN "ask"
        ELSE "decider"

RouteAfterSearchAskFirst(s) ==
    LET d == NormDecision(s)
    IN  IF TruthyRec(s.selected) /\ d \in {DecCollect, DecReport}
        THEN (IF d = DecCollect THEN "collector" ELSE "reporter")
        ELSE IF ~TruthyRec(s.selected)
        THEN (IF d = <<>> THEN "ask"
              ELSE IF CandidatesOf(s) = <<>> THEN "finish"
              ELSE "decider")
        ELSE "finalize"

RouteAfterSearch(s) ==
    LET d == NormDecision(s)
    IN  IF TruthyRec(s.selected) /\ d \in {DecCollect, DecReport}
        THEN (IF d = DecCollect THEN "collector" ELSE "reporter")
        ELSE IF ~TruthyRec(s.selected)
        THEN (IF CandidatesOf(s) = <<>> THEN "finish"
              ELSE IF d = <<>> THEN "ask"
              ELSE "decider")
        ELSE "finalize"

NodeAskNoFlag(s) == s

NodeAsk(s) == [s EXCEPT !.awaiting_user = Some(TRUE)]

\* the two extra queries of the broadened retry
BroadenedQueriesOnlyExtra(s) ==
    LET d == OrEmptyDict(s.inputs)
        name == GetFmt(d, "first_name") \o <<" ">> \o GetFmt(d, "last_name")
    IN  << name \o <<" profile">>, name \o <<" resume">> >>

BroadenedQueries(s) ==
    LET d == OrEmptyDict(s.inputs)
        name == GetFmt(d, "first_name") \o <<" ">> \o GetFmt(d, "last_name")
    IN  (IF Truthy(s.queries) THEN Val(s.queries) ELSE <<>>)
        \o << name \o <<" profile">>, name \o <<" resume">> >>

\* the negative branch has run past the end of the list
DeciderBroadens(s) ==
    /\ NormDecision(s) \in NoTokens
    /\ ~(IndexOf(s) + 1 < Len(CandidatesOf(s)))

\* the _search_candidates call the decider makes, as a log entry
DeciderPasses(s, web) ==
    IF DeciderBroadens(s)
    THEN << [kind |-> "broadened", queries |-> BroadenedQueries(s),
             max_results |-> BroadenedMaxResults,
             found |-> Len(SearchCandidates(BroadenedQueries(s), web))] >>
    ELSE <<>>

\* candidates[idx] raises IndexError
DeciderRaises(s) ==
    /\ NormDecision(s) \in YesTokens
    /\ CandidatesOf(s) # <<>>
    /\ ~(IndexOf(s) < Len(CandidatesOf(s)))

SelectAt(s, idx) ==
    LET sel == CandidatesOf(s)[idx + 1]
    IN  [s EXCEPT !.selected = Some(sel),
                  !.awaiting_user = Some(FALSE),
                  !.summary = SummaryOf(sel)]

ExhaustedNoSummary(s) == [s EXCEPT !.awaiting_user = Some(FALSE)]

Exhausted(s) ==
    [s EXCEPT !.awaiting_user = Some(FALSE), !.summary = Some(MsgExhausted)]

NodeDeciderStays(s, web) ==
    LET d == NormDecision(s)
        idx == IndexOf(s)
    IN  IF d \in YesTokens
        THEN (IF CandidatesOf(s) # <<>> THEN SelectAt(s, idx) ELSE s)
        ELSE IF d \in NoTokens
        THEN (IF idx + 1 < Len(CandidatesOf(s))
              THEN [s EXCEPT !.current_index = Some(idx),
                             !.awaiting_user = Some(TRUE)]
              ELSE LET new == SearchCandidates(BroadenedQueries(s), web)
                   IN  IF new # <<>>
                       THEN [s EXCEPT !.candidates = Some(new),
                                      !.current_index = Some(0),
                                      !.awaiting_user = Some(TRUE)]
                       ELSE Exhausted(s))
        ELSE [s EXCEPT !.awaiting_user = Some(TRUE)]

NodeDeciderOverruns(s, web) ==
    LET d == NormDecision(s)
        idx == IndexOf(s)
    IN  IF d \in YesTokens
        THEN (IF CandidatesOf(s) # <<>> THEN SelectAt(s, idx) ELSE s)
        ELSE IF d \in NoTokens
        THEN (IF idx + 1 < Len(CandidatesOf(s))
              THEN [s EXCEPT !.current_index = Some(idx + 1),
                             !.awaiting_user = Some(TRUE)]
              ELSE LET new == SearchCandidates(BroadenedQueries(s), web)
                   IN  IF new # <<>>
                       THEN [s EXCEPT !.candidates = Some(new),
                                      !.current_index = Some(0),
                                      !.awaiting_user = Some(TRUE)]
                       ELSE [Exhausted(s) EXCEPT !.current_index = Some(idx + 1)])
        ELSE [s EXCEPT !.awaiting_user = Some(TRUE)]

NodeDecider(s, web) ==
    LET d == NormDecision(s)
        idx == IndexOf(s)
    IN  IF d \in YesTokens
        THEN (IF CandidatesOf(s) # <<>> THEN SelectAt(s, idx) ELSE s)
        ELSE IF d \in NoTokens
        THEN (IF idx + 1 < Len(CandidatesOf(s))
              THEN [s EXCEPT !.current_index = Some(idx + 1),
                             !.awaiting_user = Some(TRUE)]
              ELSE LET new == SearchCandidates(BroadenedQueries(s), web)
                   IN  IF new # <<>>
                       THEN [s EXCEPT !.candidates = Some(new),
                                      !.current_index = Some(0),
                                      !.awaiting_user = Some(TRUE)]
                       ELSE Exhausted(s))
        ELSE [s EXCEPT !.awaiting_user = Some(TRUE)]

RouteAfterDeciderRetry(s) ==
    IF TruthyRec(s.selected) THEN "collector"
    ELSE IF TruthyBool(s.awaiting_user) THEN "ask" ELSE "decider"

RouteAfterDecider(s) ==
    IF TruthyRec(s.selected) THEN "collector"
    ELSE IF TruthyBool(s.awaiting_user) THEN "ask" ELSE "finish"

NodeCollector(s, fetched) ==
    IF TruthyRec(s.selected)
    THEN LET s1 == [s EXCEPT !.details = Some(CollectDetails(Val(s.selected), fetched))]
         IN  IF ~Truthy(s1.summary)
             THEN [s1 EXCEPT !.summary = SummaryOf(Val(s.selected))]
             ELSE s1
    ELSE s

RouteAfterCollectAgain(s) ==
    IF NormDecision(s) \in YesTokens THEN "reporter" ELSE "collector"

RouteAfterCollectReports(s) == "reporter"

RouteAfterCollect(s) ==
    IF NormDecision(s) \in YesTokens THEN "reporter" ELSE "finalize"

\* text is what _make_report returned
NodeReporter(s, fetched, text) ==
    LET s1 == IF ~TruthyRec(s.details) /\ TruthyRec(s.selected)
              THEN [s EXCEPT !.details = Some(CollectDetails(Val(s.selected), fetched))]
              ELSE s
    IN  [s1 EXCEPT !.report = Some(text), !.awaiting_user = Some(FALSE)]

NodeFinalizeDropsReport(s) ==
    LET s1 == [s EXCEPT !.awaiting_user = Some(FALSE), !.report = None]
    IN  IF TruthyRec(s1.selected) /\ ~Truthy(s1.summary)
        THEN [s1 EXCEPT !.summary = SummaryOf(Val(s1.selected))]
        ELSE s1

NodeFinalize(s) ==
    LET s1 == [s EXCEPT !.awaiting_user = Some(FALSE)]
    IN  IF TruthyRec(s1.selected) /\ ~Truthy(s1.summary)
        THEN [s1 EXCEPT !.summary = SummaryOf(Val(s1.selected))]
        ELSE s1

NodeFinishSilent(s) == [s EXCEPT !.awaiting_user = Some(FALSE)]

NodeFinishAsks(s) == [s EXCEPT !.awaiting_user = Some(TRUE)]

NodeFinish(s) ==
    LET s1 == [s EXCEPT !.awaiting_user = Some(FALSE)]
    IN  IF ~Truthy(s1.summary) /\ ~TruthyRec(s1.selected) /\ ~Truthy(s1.candidates)
        THEN [s1 EXCEPT !.summary = Some(MsgNoCandidates)]
        ELSE s1

(* ---------------------------------------------------------------------- *)
(* get_llm and the text generation call of _make_report                    *)
(* ---------------------------------------------------------------------- *)
\* get_llm() returns the DummyLLM when no provider is configured and a
\* _SystemPromptWrapper around the provider's chat model otherwise.
LlmKinds == {"dummy", "provider"}

\* texts a provider answers with (taken non-empty)
ReportTexts == { <<"R">> }

\* Outcomes of llm.generate_text(prompt, max_tokens=2048): None stands for
\* the call raising.  DummyLLM defines invoke only, so the attribute lookup
\* raises AttributeError; _SystemPromptWrapper.__getattr__ forwards the
\* attribute to the provider's object, which is taken to answer with a text.
GenerateText(kind) ==
    IF kind = "dummy" THEN {None} ELSE {Some(t) : t \in ReportTexts}

(* ---------------------------------------------------------------------- *)
(* Environment of the workflow: callers' arguments and capabilities        *)
(* ---------------------------------------------------------------------- *)
sJo == <<"J", "o">>

sDo == <<"D", "o">>

inJohn ==
    << <<"first_name", Some(sJo)>>, <<"last_name", Some(sDo)>>,
       <<"surname", Some(<<>>)>>, <<"phone", Some(<<>>)>> >>

CallInputs == {None, Some(<<>>), Some(inJohn)}

CallDecisions ==
    {None, Some(<<" ">>), Some(<<" ", "Y", "E", "S", " ">>), Some(<<"n", "o">>),
     Some(<<"m", "a", "y", "b", "e">>), Some(DecCollect), Some(DecReport)}

urlA == <<"a">>

urlB == <<"b">>

rawA == [title |-> Some(<<"T">>), href |-> Some(urlA), body |-> Some(<<"s">>)]

rawApad == [title |-> None, href |-> Some(<<" ">> \o urlA \o <<" ">>), body |-> None]

rawB == [title |-> Some(<<>>), href |-> Some(urlB), body |-> None]

rawBlank == [title |-> Some(<<"T">>), href |-> Some(<<" ">>), body |-> None]

rawNoHref == [title |-> Some(<<"T">>), href |-> None, body |-> None]

\* result lists the search capability answers a query with
RawLists == { <<>>, <<rawA>>, <<rawApad, rawB>>, <<rawNoHref, rawBlank>> }

\* longest query list of a pass: queries[:5] plus the two broadened ones
MaxPassQueries == MaxQueries + 2

\* the answers of one search pass, by query position: one list for the
\* first query, one for every later query
Webs ==
    { [i \in 1..MaxPassQueries |-> IF i = 1 THEN l1 ELSE l2]
      : l1 \in RawLists, l2 \in RawLists }

FetchedTitles == {None, Some(<<>>), Some(<<"F">>)}

(* ---------------------------------------------------------------------- *)
(* State of the model                                                      *)
(* ---------------------------------------------------------------------- *)
VARIABLES
    persisted,   \* the record's state: what the last returned traversal gave
    prev,        \* how that traversal was called and where it ended
    call,        \* arguments of the invocation in progress
    st,          \* working state of the traversal in progress
    pre,         \* the state ingest produced for this traversal
    pc,          \* "idle", the node about to run, "END" or "raised"
    trace,       \* nodes executed by this traversal, in order
    searchLog,   \* search passes of this traversal, in order
    calls,       \* invocations made on the record
    broadened,   \* broadened retries made on the record
    llm,         \* which client get_llm() gives
    fnIn,        \* argument of the pure function under study
    fnOut,       \* its result
    fnPc,        \* "none", "ready" or "done"
    row,         \* the record's row of the people table
    status,      \* _TASK_STATUS entry of the record
    jobs,        \* background runs scheduled for the record
    lastWrite    \* the run whose update_person was the latest, 0 if none

vars ==
    <<persisted, prev, call, st, pre, pc, trace, searchLog, calls, broadened,
      llm, fnIn, fnOut, fnPc, row, status, jobs, lastWrite>>

fnVars == <<fnIn, fnOut, fnPc>>

appVars == <<row, status, jobs, lastWrite>>

MaxJobs == 3

\* json.dumps(state) and json.loads(text): the text is kept as the tagged
\* value it encodes
Dumps(s) == <<"json", s>>

Loads(t) == t[2]

NoRow == [exists |-> FALSE, data_json |-> None, summary |-> None, report_text |-> None]

NoJob ==
    [pc |-> "free", inputs |-> None, decision |-> None,
     prior |-> EmptyState, result |-> EmptyState, overlapped |-> FALSE,
     serial |-> TRUE, last |-> FALSE]

AppIdle ==
    /\ row = NoRow
    /\ status = "idle"
    /\ jobs = [j \in 1..MaxJobs |-> NoJob]
    /\ lastWrite = 0

NoCall == [inputs |-> None, prior_state |-> None, user_decision |-> None]

NoPrev == [call |-> NoCall, prior_given |-> FALSE, terminal |-> "none"]

Init ==
    /\ persisted = EmptyState
    /\ prev = NoPrev
    /\ call = NoCall
    /\ st = EmptyState
    /\ pre = EmptyState
    /\ pc = "idle"
    /\ trace = <<>>
    /\ searchLog = <<>>
    /\ calls = 0
    /\ broadened = 0
    /\ llm \in LlmKinds
    /\ fnIn = <<>>
    /\ fnOut = <<>>
    /\ fnPc = "none"
    /\ AppIdle

\* Which mapping the nodes after ingest work on when prior_state is a dict:
\* "copy" is the fresh dict(prior) ingest builds, "prior" would be the
\* caller's own mapping.
IngestResultAlias == "prior"

IngestResultObject == "copy"

\* the mapping the nodes assign into: the argument mapping itself when
\* ingest returns it unchanged
WorkingObject(c) == IF IsSet(c.prior_state) THEN IngestResultObject ELSE "args"

\* The caller's prior_state mapping after a node has assigned into the
\* working mapping, whose content is then s: assignments reach the caller's
\* mapping only if the two are one object.
CallerSees(c, s) ==
    IF WorkingObject(c) = "prior" THEN [c EXCEPT !.prior_state = Some(s)] ELSE c

\* run_flow(inputs, prior_state, user_decision): starts one traversal of
\* GRAPH on the argument mapping.
Invoke ==
    /\ pc = "idle"
    /\ calls < MaxCalls
    /\ \E i \in CallInputs, d \in CallDecisions,
          p \in {Some(persisted)} \cup (IF persisted = EmptyState THEN {None} ELSE {}) :
          call' = [inputs |-> i, prior_state |-> p, user_decision |-> d]
    /\ calls' = calls + 1
    /\ pc' = "ingest"
    /\ st' = EmptyState
    /\ pre' = EmptyState
    /\ trace' = <<>>
    /\ searchLog' = <<>>
    /\ UNCHANGED <<persisted, prev, broadened, llm, fnVars, appVars>>

Ingest ==
    /\ pc = "ingest"
    /\ st' = NodeIngest(call)
    /\ pre' = NodeIngest(call)
    /\ trace' = Append(trace, "ingest")
    /\ pc' = "planner"
    /\ call' = CallerSees(call, st')
    /\ UNCHANGED <<persisted, prev, searchLog, calls, broadened, llm, fnVars, appVars>>

Planner ==
    /\ pc = "planner"
    /\ st' = NodePlanner(st)
    /\ trace' = Append(trace, "planner")
    /\ pc' = "searcher"
    /\ call' = CallerSees(call, st')
    /\ UNCHANGED <<persisted, prev, pre, searchLog, calls, broadened, llm, fnVars, appVars>>

Searcher ==
    /\ pc = "searcher"
    /\ \E web \in (IF SearcherRuns(st) THEN Webs ELSE {CHOOSE w \in Webs : TRUE}) :
          /\ st' = NodeSearcher(st, web)
          /\ pc' = RouteAfterSearch(NodeSearcher(st, web))
          /\ searchLog' = searchLog \o SearcherPasses(st, web)
    /\ trace' = Append(trace, "searcher")
    /\ call' = CallerSees(call, st')
    /\ UNCHANGED <<persisted, prev, pre, calls, broadened, llm, fnVars, appVars>>

Ask ==
    /\ pc = "ask"
    /\ st' = NodeAsk(st)
    /\ trace' = Append(trace, "ask")
    /\ pc' = "END"
    /\ call' = CallerSees(call, st')
    /\ UNCHANGED <<persisted, prev, pre, searchLog, calls, broadened, llm, fnVars, appVars>>

Decider ==
    /\ pc = "decider"
    /\ trace' = Append(trace, "decider")
    /\ IF DeciderRaises(st)
       THEN /\ pc' = "raised"
            /\ UNCHANGED <<st, searchLog, broadened>>
       ELSE /\ \E web \in (IF DeciderBroadens(st) THEN Webs ELSE {CHOOSE w \in Webs : TRUE}) :
                  /\ st' = NodeDecider(st, web)
                  /\ pc' = RouteAfterDecider(NodeDecider(st, web))
                  /\ searchLog' = searchLog \o DeciderPasses(st, web)
            /\ broadened' = IF DeciderBroadens(st) THEN broadened + 1 ELSE broadened
    /\ call' = CallerSees(call, st')
    /\ UNCHANGED <<persisted, prev, pre, calls, llm, fnVars, appVars>>

Collector ==
    /\ pc = "collector"
    /\ \E fetched \in (IF TruthyRec(st.selected) THEN FetchedTitles ELSE {None}) :
          /\ st' = NodeCollector(st, fetched)
          /\ pc' = RouteAfterCollect(NodeCollector(st, fetched))
    /\ trace' = Append(trace, "collector")
    /\ call' = CallerSees(call, st')
    /\ UNCHANGED <<persisted, prev, pre, searchLog, calls, broadened, llm, fnVars, appVars>>

ReporterFetches(s) == ~TruthyRec(s.details) /\ TruthyRec(s.selected)

Reporter ==
    /\ pc = "reporter"
    /\ \E out \in GenerateText(llm) \ {None},
          fetched \in (IF ReporterFetches(st) THEN FetchedTitles ELSE {None}) :
          st' = NodeReporter(st, fetched, Val(out))
    /\ trace' = Append(trace, "reporter")
    /\ pc' = "END"
    /\ call' = CallerSees(call, st')
    /\ UNCHANGED <<persisted, prev, pre, searchLog, calls, broadened, llm, fnVars, appVars>>

\* _make_report raises inside the reporter node: the invocation raises
ReporterRaises ==
    /\ pc = "reporter"
    /\ None \in GenerateText(llm)
    /\ trace' = Append(trace, "reporter")
    /\ pc' = "raised"
    /\ UNCHANGED <<persisted, prev, call, st, pre, searchLog, calls, broadened, llm, fnVars, appVars>>

Finalize ==
    /\ pc = "finalize"
    /\ st' = NodeFinalize(st)
    /\ trace' = Append(trace, "finalize")
    /\ pc' = "END"
    /\ call' = CallerSees(call, st')
    /\ UNCHANGED <<persisted, prev, pre, searchLog, calls, broadened, llm, fnVars, appVars>>

Finish ==
    /\ pc = "finish"
    /\ st' = NodeFinish(st)
    /\ trace' = Append(trace, "finish")
    /\ pc' = "END"
    /\ call' = CallerSees(call, st')
    /\ UNCHANGED <<persisted, prev, pre, searchLog, calls, broadened, llm, fnVars, appVars>>

\* what run_flow hands back as the new state
ReturnedState(s) == s

\* the invocation returns; the caller keeps the returned state for the record
Return ==
    /\ pc = "END"
    /\ persisted' = ReturnedState(st)
    /\ prev' = [call |-> [call EXCEPT !.prior_state = None],
                prior_given |-> IsSet(call.prior_state),
                terminal |-> trace[Len(trace)]]
    /\ pc' = "idle"
    /\ call' = NoCall
    /\ st' = EmptyState
    /\ pre' = EmptyState
    /\ trace' = <<>>
    /\ searchLog' = <<>>
    /\ UNCHANGED <<calls, broadened, llm, fnVars, appVars>>

\* the invocation raised; nothing is returned
Fail ==
    /\ pc = "raised"
    /\ pc' = "idle"
    /\ call' = NoCall
    /\ st' = EmptyState
    /\ pre' = EmptyState
    /\ trace' = <<>>
    /\ searchLog' = <<>>
    /\ UNCHANGED <<persisted, prev, calls, broadened, llm, fnVars, appVars>>

Next ==
    \/ Invoke
    \/ Ingest
    \/ Planner
    \/ Searcher
    \/ Ask
    \/ Decider
    \/ Collector
    \/ Reporter
    \/ ReporterRaises
    \/ Finalize
    \/ Finish
    \/ Return
    \/ Fail

Spec == Init /\ [][Next]_vars

(* ---------------------------------------------------------------------- *)
(* _make_queries on its own: SpecQueries                                   *)
(* ---------------------------------------------------------------------- *)
\* values a field of inputs is drawn from; "missing" leaves the key out
FieldValues(x) ==
    { <<"missing">>, <<"set", None>>, <<"set", Some(<<>>)>>, <<"set", Some(<<" ">>)>>,
      <<"set", Some(<<x>>)>>, <<"set", Some(<<" ", x, " ">>)>> }

DictOf(f, l, n, p) ==
    (IF f[1] = "set" THEN << <<"first_name", f[2]>> >> ELSE <<>>)
    \o (IF l[1] = "set" THEN << <<"last_name", l[2]>> >> ELSE <<>>)
    \o (IF n[1] = "set" THEN << <<"surname", n[2]>> >> ELSE <<>>)
    \o (IF p[1] = "set" THEN << <<"phone", p[2]>> >> ELSE <<>>)

QueryInputs ==
    {None} \cup
    { Some(DictOf(f, l, n, p)) :
        f \in FieldValues("A"), l \in FieldValues("B"),
        n \in FieldValues("C"), p \in FieldValues("5") }

MainIdle ==
    /\ persisted = EmptyState
    /\ prev = NoPrev
    /\ call = NoCall
    /\ st = EmptyState
    /\ pre = EmptyState
    /\ pc = "idle"
    /\ trace = <<>>
    /\ searchLog = <<>>
    /\ calls = 0
    /\ broadened = 0
    /\ llm = "dummy"

mainVars ==
    <<persisted, prev, call, st, pre, pc, trace, searchLog, calls, broadened, llm>>

InitQueries ==
    /\ MainIdle
    /\ AppIdle
    /\ fnIn \in QueryInputs
    /\ fnOut = <<>>
    /\ fnPc = "ready"

ApplyMakeQueries ==
    /\ fnPc = "ready"
    /\ fnOut' = MakeQueries(fnIn)
    /\ fnPc' = "done"
    /\ UNCHANGED <<fnIn, mainVars, appVars>>

SpecQueries == InitQueries /\ [][ApplyMakeQueries]_vars

(* ---------------------------------------------------------------------- *)
(* _search_candidates on its own: SpecSearch                               *)
(* ---------------------------------------------------------------------- *)
MaxSearchQueries == 2

SearchQueryPool == { <<"q">>, <<"q", " linkedin">> }

RawPool == {rawA, rawApad, rawB, rawBlank, rawNoHref}

SeqsUpTo(S, n) == UNION { [1..k -> S] : k \in 0..n }

InitSearch ==
    /\ MainIdle
    /\ AppIdle
    /\ \E qs \in SeqsUpTo(SearchQueryPool, MaxSearchQueries) :
          \E web \in [1..Len(qs) -> SeqsUpTo(RawPool, MaxRaw)] :
             fnIn = [queries |-> qs, web |-> web]
    /\ fnOut = <<>>
    /\ fnPc = "ready"

ApplySearchCandidates ==
    /\ fnPc = "ready"
    /\ fnOut' = SearchCandidates(fnIn.queries, fnIn.web)
    /\ fnPc' = "done"
    /\ UNCHANGED <<fnIn, mainVars, appVars>>

SpecSearch == InitSearch /\ [][ApplySearchCandidates]_vars

(* ---------------------------------------------------------------------- *)
(* fetch_url_title and the collector on their own: SpecCollect             *)
(* ---------------------------------------------------------------------- *)
\* what happens to the request of fetch_url_title
FetchOutcomes ==
    { [kind |-> k, text |-> <<>>] :
        k \in {"no requests", "timeout", "network error", "not ok", "no title tag",
               "tag not closed"} }
    \cup { [kind |-> "title", text |-> t] :
             t \in { <<>>, <<" ">>, <<"F">>, <<" ", "F", " ">> } }

\* fetch_url_title(url): the stripped text between <title...> and </title>
\* of a page that was fetched, None in every other case
FetchUrlTitle(outcome) ==
    IF outcome.kind = "title" THEN Some(Strip(outcome.text)) ELSE None

CollectCandidates ==
    { [title |-> t, url |-> u, snippet |-> b, source_query |-> q] :
        t \in {None, Some(<<>>), Some(<<"T">>)}, u \in {urlA, urlB},
        b \in {None, Some(<<"s">>)}, q \in SearchQueryPool }

InitCollect ==
    /\ MainIdle
    /\ AppIdle
    /\ \E c \in CollectCandidates, o \in FetchOutcomes, m \in {None, Some(<<"S">>)} :
          fnIn = [state |-> [EmptyState EXCEPT !.selected = Some(c), !.summary = m],
                  outcome |-> o]
    /\ fnOut = <<>>
    /\ fnPc = "ready"

ApplyCollector ==
    /\ fnPc = "ready"
    /\ fnOut' = NodeCollector(fnIn.state, FetchUrlTitle(fnIn.outcome))
    /\ fnPc' = "done"
    /\ UNCHANGED <<fnIn, mainVars, appVars>>

SpecCollect == InitCollect /\ [][ApplyCollector]_vars

(* ---------------------------------------------------------------------- *)
(* The web application around the workflow: SpecApp                        *)
(* ---------------------------------------------------------------------- *)
\* the form of start_search and the decisions of the confirmation form
AppInputs == {Some(inJohn)}

AppDecisions == {Some(<<" ", "Y", "E", "S", " ">>), Some(<<"n", "o">>)}

AppRawLists == { <<>>, <<rawApad, rawB>> }

\* the first query of a pass finds two results or none, later ones none
AppWebs == { w \in Webs : w[1] \in AppRawLists /\ w[2] = <<>> }

AppFetched == {Some(<<"F">>)}

Raised == [raised |-> TRUE, state |-> EmptyState]

Returned(s) == [raised |-> FALSE, state |-> s]

\* One traversal of GRAPH from ingest to END as a function of the argument
\* mapping and of what the capabilities answer.
RunFlow(c, web, fetched, kind) ==
    LET ReportStep(s) ==
            IF None \in GenerateText(kind) THEN Raised
            ELSE Returned(NodeReporter(s, fetched,
                             Val(CHOOSE o \in GenerateText(kind) : TRUE)))
        CollectStep(s) ==
            LET s5 == NodeCollector(s, fetched)
            IN  IF RouteAfterCollect(s5) = "reporter" THEN ReportStep(s5)
                ELSE Returned(NodeFinalize(s5))
        DeciderStep(s) ==
            IF DeciderRaises(s) THEN Raised
            ELSE LET s4 == NodeDecider(s, web)
                     r == RouteAfterDecider(s4)
                 IN  IF r = "collector" THEN CollectStep(s4)
                     ELSE IF r = "ask" THEN Returned(NodeAsk(s4))
                     ELSE Returned(NodeFinish(s4))
        s3 == NodeSearcher(NodePlanner(NodeIngest(c)), web)
        r1 == RouteAfterSearch(s3)
    IN  IF r1 = "collector" THEN CollectStep(s3)
        ELSE IF r1 = "reporter" THEN ReportStep(s3)
        ELSE IF r1 = "finish" THEN Returned(NodeFinish(s3))
        ELSE IF r1 = "ask" THEN Returned(NodeAsk(s3))
        ELSE IF r1 = "decider" THEN DeciderStep(s3)
        ELSE Returned(NodeFinalize(s3))

\* the second value run_flow returns
ReportTextOf(s) == s.report

\* prior_state of _run_flow_bg: the stored state only when inputs is None
\* and the row has a non-empty data_json
BgPriorEmpty(inputs, r) == EmptyState

BgPrior(inputs, r) ==
    IF ~IsSet(inputs) /\ r.exists /\ IsSet(r.data_json)
    THEN Loads(Val(r.data_json))
    ELSE EmptyState

\* the arguments _run_flow_bg gives run_flow
BgCall(job) ==
    [inputs |-> job.inputs, prior_state |-> Some(job.prior),
     user_decision |-> job.decision]

\* update_person(person_id, data_json=..., summary=..., report_text=...)
BgRowKeepsFirst(r, s) ==
    IF IsSet(r.data_json) THEN r
    ELSE [r EXCEPT !.data_json = Some(Dumps(s)), !.summary = s.summary,
                   !.report_text = ReportTextOf(s)]

BgRow(r, s) ==
    [r EXCEPT !.data_json = Some(Dumps(s)), !.summary = s.summary,
              !.report_text = ReportTextOf(s)]

\* the status _run_flow_bg records when run_flow has returned or raised
BgStatusNoError(out) ==
    IF ~out.raised /\ TruthyBool(out.state.awaiting_user) THEN "awaiting_user" ELSE "done"

BgStatus(out) ==
    IF out.raised THEN "error"
    ELSE IF TruthyBool(out.state.awaiting_user) THEN "awaiting_user"
    ELSE "done"

FreeJobs == { j \in 1..MaxJobs : jobs[j].pc = "free" }

\* the runs scheduled and not yet finished
InFlight == { j \in 1..MaxJobs : jobs[j].pc \in {"scheduled", "read"} }

\* background_tasks.add_task(_run_flow_bg, person_id, inputs, decision);
\* serial records whether no other run was in flight at that moment
AddTask(inputs, decision) ==
    /\ FreeJobs # {}
    /\ jobs' = [jobs EXCEPT ![SetMin(FreeJobs)] =
                   [NoJob EXCEPT !.pc = "scheduled", !.inputs = inputs,
                                 !.decision = decision,
                                 !.serial = (InFlight = {})]]

InitApp ==
    /\ persisted = EmptyState
    /\ prev = NoPrev
    /\ call = NoCall
    /\ st = EmptyState
    /\ pre = EmptyState
    /\ pc = "idle"
    /\ trace = <<>>
    /\ searchLog = <<>>
    /\ calls = 0
    /\ broadened = 0
    /\ llm \in LlmKinds
    /\ fnIn = <<>>
    /\ fnOut = <<>>
    /\ fnPc = "none"
    /\ AppIdle

\* POST /search: creates the record and schedules its first run
StartSearch ==
    /\ ~row.exists
    /\ row' = [NoRow EXCEPT !.exists = TRUE]
    /\ status' = "running"
    /\ \E i \in AppInputs : AddTask(i, None)
    /\ UNCHANGED <<mainVars, fnVars, lastWrite>>

\* POST /confirm/{person_id}
SubmitConfirmationKeepsStatus ==
    /\ row.exists
    /\ \E d \in AppDecisions : AddTask(None, d)
    /\ UNCHANGED <<mainVars, fnVars, row, status, lastWrite>>

SubmitConfirmation ==
    /\ row.exists
    /\ status' = "running"
    /\ \E d \in AppDecisions : AddTask(None, d)
    /\ UNCHANGED <<mainVars, fnVars, row, lastWrite>>

\* POST /people/{person_id}/update
UpdateInfo ==
    /\ row.exists
    /\ status' = "running"
    /\ AddTask(None, Some(DecCollect))
    /\ UNCHANGED <<mainVars, fnVars, row, lastWrite>>

\* POST /people/{person_id}/report
GenerateReport ==
    /\ row.exists
    /\ status' = "running"
    /\ AddTask(None, Some(DecReport))
    /\ UNCHANGED <<mainVars, fnVars, row, lastWrite>>

\* _run_flow_bg up to the call of run_flow: reads the row
BgRead(j) ==
    /\ jobs[j].pc = "scheduled"
    /\ jobs' = [jobs EXCEPT ![j].pc = "read",
                            ![j].prior = BgPrior(jobs[j].inputs, row)]
    /\ UNCHANGED <<mainVars, fnVars, row, status, lastWrite>>

\* run_flow returns: _run_flow_bg writes the row and records the status
BgWrite(j) ==
    /\ jobs[j].pc = "read"
    /\ \E web \in AppWebs, fetched \in AppFetched :
          LET out == RunFlow(BgCall(jobs[j]), web, fetched, llm)
          IN  /\ ~out.raised
              /\ row' = BgRow(row, ReturnedState(out.state))
              /\ status' = BgStatus(out)
              /\ jobs' = [k \in 1..MaxJobs |->
                            IF k = j
                            THEN [jobs[k] EXCEPT !.pc = "done", !.result = out.state,
                                                 !.last = TRUE]
                            ELSE IF jobs[k].pc = "read"
                            THEN [jobs[k] EXCEPT !.overlapped = TRUE, !.last = FALSE]
                            ELSE [jobs[k] EXCEPT !.last = FALSE]]
    /\ lastWrite' = j
    /\ UNCHANGED <<mainVars, fnVars>>

\* run_flow raises: _run_flow_bg records the error and writes nothing
BgFail(j) ==
    /\ jobs[j].pc = "read"
    /\ \E web \in AppWebs, fetched \in AppFetched :
          LET out == RunFlow(BgCall(jobs[j]), web, fetched, llm)
          IN  /\ out.raised
              /\ status' = BgStatus(out)
    /\ jobs' = [k \in 1..MaxJobs |->
                  IF k = j THEN [jobs[k] EXCEPT !.pc = "failed", !.last = TRUE]
                  ELSE [jobs[k] EXCEPT !.last = FALSE]]
    /\ UNCHANGED <<mainVars, fnVars, row, lastWrite>>

NextApp ==
    \/ StartSearch
    \/ SubmitConfirmation
    \/ UpdateInfo
    \/ GenerateReport
    \/ \E j \in 1..MaxJobs : BgRead(j)
    \/ \E j \in 1..MaxJobs : BgWrite(j)
    \/ \E j \in 1..MaxJobs : BgFail(j)

SpecApp == InitApp /\ [][NextApp]_vars

(* ---------------------------------------------------------------------- *)
(* Vocabulary of the properties                                            *)
(* ---------------------------------------------------------------------- *)
\* the traversal in progress has reached END / has reached END or raised
Done == pc = "END"

Ended == pc \in {"END", "raised"}

Terminal == IF trace = <<>> THEN "none" ELSE trace[Len(trace)]

Visited(n) == \E i \in 1..Len(trace) : trace[i] = n

BroadenedPasses == {i \in 1..Len(searchLog) : searchLog[i].kind = "broadened"}

\* the candidate on offer in state s
Offered(s) == CandidatesOf(s)[IndexOf(s) + 1]

FreshCall == ~IsSet(call.prior_state) \/ call.prior_state = Some(EmptyState)

(* ---------------------------------------------------------------------- *)
(* C1                                                                      *)
(* ---------------------------------------------------------------------- *)
C1_Case ==
    /\ Ended
    /\ Truthy(pre.inputs)
    /\ CandidatesOf(pre) # <<>>
    /\ ~TruthyRec(pre.selected)
    /\ IndexOf(pre) < Len(CandidatesOf(pre))
    /\ NormDecision(pre) \in YesTokens

\* C1 (confirm-yes): a traversal that starts with inputs, a non-empty
\* candidates list, no selected, a valid current_index and an affirmative
\* decision visits ingest, planner, searcher, decider, collector, reporter in
\* that order and returns with selected = candidates[current_index],
\* awaiting_user = false, a non-empty summary and a non-empty report.
C1_ConfirmYes ==
    C1_Case =>
        /\ pc = "END"
        /\ trace = <<"ingest", "planner", "searcher", "decider", "collector", "reporter">>
        /\ st.selected = Some(Offered(pre))
        /\ st.awaiting_user = Some(FALSE)
        /\ Truthy(st.summary)
        /\ Truthy(st.report)

(* ---------------------------------------------------------------------- *)
(* C2                                                                      *)
(* ---------------------------------------------------------------------- *)
C2_FirstCall ==
    /\ IsSet(call.inputs)
    /\ ~IsSet(call.user_decision)
    /\ ~IsSet(call.prior_state)
    /\ CandidatesOf(st) # <<>>

C2_SecondCall ==
    /\ prev.terminal = "ask"
    /\ IsSet(prev.call.inputs)
    /\ ~IsSet(prev.call.user_decision)
    /\ ~prev.prior_given
    /\ call.prior_state = Some(persisted)
    /\ NormDecision(call) = <<"y", "e", "s">>

\* C2 (ask-then-resume): a call with inputs only whose search finds a
\* candidate ends at ask with awaiting_user = true and no selected; the next
\* call, given the returned state and the decision "yes", returns with
\* selected = the candidate that was on offer, a report, and the same
\* candidates and current_index.
C2_AskThenResume ==
    /\ (Done /\ C2_FirstCall) =>
          /\ Terminal = "ask"
          /\ st.awaiting_user = Some(TRUE)
          /\ ~IsSet(st.selected)
    /\ (Ended /\ C2_SecondCall) =>
          /\ pc = "END"
          /\ st.selected = Some(Offered(persisted))
          /\ Truthy(st.report)
          /\ st.candidates = persisted.candidates
          /\ st.current_index = persisted.current_index

(* ---------------------------------------------------------------------- *)
(* C3                                                                      *)
(* ---------------------------------------------------------------------- *)
C3_InTraversal ==
    (pc \notin {"idle", "ingest"} /\ TruthyRec(pre.selected)) =>
        /\ st.selected = pre.selected
        /\ pc # "decider"
        /\ ~Visited("decider")

\* C3: once selected is set for the record, no later traversal clears or
\* replaces it, and the decider node never runs while selected is set.
C3_SelectedNeverReverted ==
    /\ []C3_InTraversal
    /\ [][TruthyRec(persisted.selected) => persisted'.selected = persisted.selected]_vars

C3_Witness ==
    /\ Done
    /\ TruthyRec(pre.selected)
    /\ NormDecision(pre) \in NoTokens
    /\ call.prior_state = Some(persisted)

(* ---------------------------------------------------------------------- *)
(* C4                                                                      *)
(* ---------------------------------------------------------------------- *)
\* C4: a returned state has awaiting_user = true exactly when the traversal
\* ended at ask; one ending at reporter, finalize or finish has
\* awaiting_user = false whatever the prior state held.
C4_AwaitingIffAsk ==
    Done =>
        /\ TruthyBool(st.awaiting_user) <=> Terminal = "ask"
        /\ Terminal \in {"ask", "reporter", "finalize", "finish"}
        /\ Terminal = "ask" => st.awaiting_user = Some(TRUE)
        /\ Terminal # "ask" => st.awaiting_user = Some(FALSE)

C4_Witness ==
    /\ Done
    /\ Terminal = "finish"
    /\ pre.awaiting_user = Some(TRUE)

(* ---------------------------------------------------------------------- *)
(* C5                                                                      *)
(* ---------------------------------------------------------------------- *)
C5_Case ==
    /\ Done
    /\ ~TruthyRec(pre.selected)
    /\ NormDecision(pre) \in NoTokens
    /\ \E i \in BroadenedPasses : searchLog[i].found = 0

\* C5 (exhaustion): with no selected, a negative decision that runs past the
\* end of candidates and a broadened retry that finds nothing, the traversal
\* ends at finish with awaiting_user = false and the exhausted summary.
C5_Exhaustion ==
    C5_Case =>
        /\ Terminal = "finish"
        /\ st.awaiting_user = Some(FALSE)
        /\ st.summary = Some(MsgExhausted)

C5_Witness == C5_Case /\ Terminal = "finish" /\ Visited("decider")

(* ---------------------------------------------------------------------- *)
(* C6                                                                      *)
(* ---------------------------------------------------------------------- *)
C6_Case ==
    /\ Done
    /\ FreshCall
    /\ Truthy(call.inputs)
    /\ QueryBase(call.inputs) # <<>>
    /\ Len(searchLog) = 1
    /\ searchLog[1].kind = "initial"
    /\ searchLog[1].found = 0

\* C6 (no candidates): a fresh state with inputs whose search finds nothing
\* ends at finish with empty candidates, awaiting_user = false and the
\* no-candidates summary, with or without a decision.
C6_NoCandidates ==
    C6_Case =>
        /\ Terminal = "finish"
        /\ st.candidates = Some(<<>>)
        /\ st.awaiting_user = Some(FALSE)
        /\ st.summary = Some(MsgNoCandidates)

C6_Witness == C6_Case /\ NormDecision(call) \in NoTokens

(* ---------------------------------------------------------------------- *)
(* C7                                                                      *)
(* ---------------------------------------------------------------------- *)
\* C7: over all traversals of a record the broadened retry is performed at
\* most once.
C7_RetryOnce == broadened <= 1

\* C7 (amended): within one traversal the broadened retry is performed at
\* most once, only by the decider on a negative decision, with
\* max_results = 3 over the existing queries followed by the "profile" and
\* "resume" queries.
C7_RetryOncePerTraversal ==
    /\ Cardinality(BroadenedPasses) <= 1
    /\ \A i \in BroadenedPasses :
          /\ Visited("decider")
          /\ NormDecision(pre) \in NoTokens
          /\ searchLog[i].max_results = 3
          /\ LET q == searchLog[i].queries
                 old == IF Truthy(st.queries) THEN Val(st.queries) ELSE <<>>
                 n == Len(old)
             IN  /\ Len(q) = n + 2
                 /\ SubSeq(q, 1, n) = old
                 /\ q[n + 1][Len(q[n + 1])] = " profile"
                 /\ q[n + 2][Len(q[n + 2])] = " resume"

C7_Witness ==
    /\ Done
    /\ Cardinality(BroadenedPasses) = 1
    /\ broadened >= 2

(* ---------------------------------------------------------------------- *)
(* C8 (SpecSearch)                                                         *)
(* ---------------------------------------------------------------------- *)
\* positions <<i, j>> of the raw results of a pass, in query order and then
\* result order
RawPositions == {<<i, j>> : i \in 1..MaxSearchQueries, j \in 1..MaxRaw}

C8_Pos ==
    {p \in RawPositions : p[1] <= Len(fnIn.queries) /\ p[2] <= Len(fnIn.web[p[1]])}

C8_Before(p, q) == p[1] < q[1] \/ (p[1] = q[1] /\ p[2] < q[2])

C8_Raw(p) == fnIn.web[p[1]][p[2]]

C8_Url(p) == Strip(IF IsSet(C8_Raw(p).href) THEN Val(C8_Raw(p).href) ELSE <<>>)

\* positions that show a non-empty url for the first time
C8_Firsts ==
    {p \in C8_Pos :
        C8_Url(p) # <<>> /\ \A q \in C8_Pos : C8_Before(q, p) => C8_Url(q) # C8_Url(p)}

C8_Rank(p) == Cardinality({q \in C8_Firsts : C8_Before(q, p)}) + 1

\* C8 (dedup): the candidates _search_candidates returns have non-empty,
\* pairwise distinct urls, in first-seen order (query order, then result
\* order), each with the first query that produced its url as source_query.
C8_Dedup ==
    fnPc = "done" =>
        /\ \A k \in 1..Len(fnOut) : fnOut[k].url # <<>>
        /\ \A k, m \in 1..Len(fnOut) : fnOut[k].url = fnOut[m].url => k = m
        /\ Len(fnOut) = Cardinality(C8_Firsts)
        /\ \A p \in C8_Firsts :
              /\ fnOut[C8_Rank(p)].url = C8_Url(p)
              /\ fnOut[C8_Rank(p)].source_query = fnIn.queries[p[1]]
              /\ fnOut[C8_Rank(p)].title = C8_Raw(p).title
              /\ fnOut[C8_Rank(p)].snippet = C8_Raw(p).body

\* a url seen twice, once padded with whitespace, and a second url
C8_Witness ==
    /\ fnPc = "done"
    /\ Len(fnOut) = 2
    /\ \E p, q \in C8_Pos :
          /\ p # q
          /\ C8_Url(p) = C8_Url(q)
          /\ C8_Url(p) # <<>>
          /\ C8_Raw(p).href # C8_Raw(q).href

(* ---------------------------------------------------------------------- *)
(* C9 (SpecQueries)                                                        *)
(* ---------------------------------------------------------------------- *)
C9_Dict == IF IsSet(fnIn) THEN Val(fnIn) ELSE <<>>

C9_Value(k) == IF IsSet(Get(C9_Dict, k)) THEN Val(Get(C9_Dict, k)) ELSE <<>>

C9_PresentRaw(k) == C9_Value(k) # <<>>

C9_PresentTrimmed(k) == Strip(C9_Value(k)) # <<>>

C9_Pass(k, reading) ==
    IF reading = "raw" THEN C9_PresentRaw(k) ELSE C9_PresentTrimmed(k)

RECURSIVE C9_Joined(_, _)
\* the trimmed values of the fields present under the reading, joined by
\* single spaces
C9_Joined(keys, reading) ==
    IF keys = <<>> THEN <<>>
    ELSE LET rest == C9_Joined(Tail(keys), reading)
             k == Head(keys)
         IN  IF ~C9_Pass(k, reading) THEN rest
             ELSE IF \E j \in 2..Len(keys) : C9_Pass(keys[j], reading)
                  THEN Strip(C9_Value(k)) \o <<" ">> \o rest
                  ELSE Strip(C9_Value(k))

C9_Expected(base) ==
    IF base = <<>> THEN <<>>
    ELSE << base, base \o <<" linkedin">>, base \o <<" github">>,
            base \o <<" twitter">>, base \o <<" facebook">> >>

\* C9: buildQueries returns nothing when base is empty and otherwise exactly
\* base and base followed by linkedin, github, twitter, facebook, where base
\* is the present trimmed values of the four fields joined by single spaces
\* (a value counting as present when it is non-empty, before or after
\* trimming).
C9_BuildQueries ==
    fnPc = "done" =>
        \/ fnOut = C9_Expected(C9_Joined(InputKeys, "raw"))
        \/ fnOut = C9_Expected(C9_Joined(InputKeys, "trimmed"))

\* C9 (amended): as C9, with base the trimmed join, by single spaces, of the
\* trimmed values of the fields whose untrimmed value is non-empty; the
\* result has at most 5 entries and never the phone-qualified query.
C9_BuildQueriesTrimmedBase ==
    fnPc = "done" =>
        /\ fnOut = C9_Expected(Strip(C9_Joined(InputKeys, "raw")))
        /\ Len(fnOut) <= 5

\* a whitespace-only first field, and a phone whose query is cut off
C9_Witness ==
    /\ fnPc = "done"
    /\ Len(fnOut) = 5
    /\ C9_Value("phone") # <<>>
    /\ C9_Value("first_name") = <<" ">>

(* ---------------------------------------------------------------------- *)
(* C10                                                                     *)
(* ---------------------------------------------------------------------- *)
C10_PlannerStep ==
    pc = "planner" =>
        st'.plan = IF Truthy(st.inputs) /\ ~Truthy(st.plan)
                   THEN Some(PlanSteps)
                   ELSE st.plan

\* C10 (idempotent planner): planner sets plan to the fixed list only when
\* inputs is present and plan is absent and otherwise leaves it alone, and
\* over the traversals of a record a plan that is set keeps its value.
C10_PlanSetOnce ==
    [][/\ C10_PlannerStep
       /\ Truthy(persisted.plan) => persisted'.plan = persisted.plan]_vars

\* planner has run on a state that came with a plan and with inputs
C10_Witness ==
    /\ pc = "searcher"
    /\ Truthy(pre.plan)
    /\ Truthy(pre.inputs)
    /\ st.plan = pre.plan

(* ---------------------------------------------------------------------- *)
(* The prompt of _make_report and the text DummyLLM.invoke gives           *)
(* ---------------------------------------------------------------------- *)
FallbackLimit == 4000

\* repr() of an optional string
ReprOpt(o) == IF IsSet(o) THEN <<"'">> \o Val(o) \o <<"'">> ELSE <<"None">>

RECURSIVE ReprItems(_)
\* the items of a dict, each as 'key': value, separated by commas
ReprItems(d) ==
    IF d = <<>> THEN <<>>
    ELSE <<"'", d[1][1], "': ">> \o ReprOpt(d[1][2])
         \o (IF Len(d) > 1 THEN <<", ">> ELSE <<>>) \o ReprItems(Tail(d))

\* f"{state.get('inputs') or {}}"
ReprInputs(o) == <<"{">> \o ReprItems(OrEmptyDict(o)) \o <<"}">>

\* f"{state.get(key) or {}}" for a candidate-shaped dict
ReprCandidate(o) ==
    IF TruthyRec(o)
    THEN <<"{'title': ">> \o ReprOpt(Val(o).title)
         \o <<", 'url': ">> \o ReprOpt(Some(Val(o).url))
         \o <<", 'snippet': ">> \o ReprOpt(Val(o).snippet)
         \o <<", 'source_query': ">> \o ReprOpt(Some(Val(o).source_query)) \o <<"}">>
    ELSE <<"{}">>

MakePrompt(s) ==
    << "Create a concise, structured portfolio/report about the person based on inputs and collected details.\n",
       "Include: Basic info (name, phone), links, inferred roles, and any notable summaries from sources.\n",
       "If data is sparse, state limitations.\n\n",
       "Inputs: " >> \o ReprInputs(s.inputs)
    \o << "\n\n", "Selected candidate: " >> \o ReprCandidate(s.selected)
    \o << "\n\n", "Collected details: " >> \o ReprCandidate(s.details)
    \o << "\n\n", "Return a markdown-like text." >>

\* DummyLLM.invoke(message) for a str message
DummyInvoke(text) ==
    <<"[FALLBACK REPORT]\n">> \o Take(text, FallbackLimit)
    \o <<"\n-- End of fallback. Provide API keys for better results.">>

(* ---------------------------------------------------------------------- *)
(* C11                                                                     *)
(* ---------------------------------------------------------------------- *)
\* C11 (fallback report): with the fallback client in use a traversal that
\* reaches reporter does not raise; it returns with report set to the
\* fallback text: the fixed tag, the first 4000 characters of the prompt and
\* the fixed trailer.
C11_FallbackReport ==
    (llm = "dummy" /\ Ended /\ Visited("reporter")) =>
        /\ pc = "END"
        /\ Truthy(st.report)
        /\ st.report = Some(DummyInvoke(MakePrompt(st)))

C13_Writes(j) == jobs[j].pc = "read" /\ jobs'[j].pc = "done"

\* the states run_flow can return for run j
C13_Results(j) ==
    { RunFlow(BgCall(jobs[j]), web, fetched, llm).state :
        web \in AppWebs, fetched \in AppFetched }

\* C13 (lost update): the write of a run replaces the stored state
\* wholesale by the result of a traversal of what that run itself read,
\* whatever was written in between; a run that no other write overlapped
\* (runs strictly serialized) replaces exactly the state it read, the one
\* the previous run wrote.
C13_LostUpdate ==
    [][\A j \in 1..MaxJobs :
          C13_Writes(j) =>
             /\ row'.data_json = Some(Dumps(jobs'[j].result))
             /\ jobs'[j].result \in C13_Results(j)
             /\ (~jobs[j].overlapped /\ ~IsSet(jobs[j].inputs))
                   => jobs[j].prior = (IF lastWrite = 0 THEN EmptyState
                                       ELSE jobs[lastWrite].result)]_vars

\* two runs read the same stored state, one with a negative and one with
\* an affirmative decision; the negative one wrote first (index moved to 1)
\* and the affirmative one wrote last: the stored state has the candidate
\* selected at index 0 and nothing of the negative decision
C13_Witness ==
    \E a, b \in 1..MaxJobs :
       /\ a # b
       /\ jobs[a].pc = "done" /\ jobs[b].pc = "done"
       /\ ~IsSet(jobs[a].inputs) /\ ~IsSet(jobs[b].inputs)
       /\ jobs[a].prior = jobs[b].prior
       /\ Truthy(jobs[a].prior.candidates)
       /\ Lower(Strip(Val(jobs[a].decision))) \in NoTokens
       /\ Lower(Strip(Val(jobs[b].decision))) \in YesTokens
       /\ jobs[a].result.current_index = Some(1)
       /\ jobs[b].overlapped
       /\ lastWrite = b
       /\ row.data_json = Some(Dumps(jobs[b].result))
       /\ TruthyRec(Loads(Val(row.data_json)).selected)
       /\ IndexOf(Loads(Val(row.data_json))) = 0
       /\ Loads(Val(row.data_json)).user_decision = jobs[b].decision

(* ---------------------------------------------------------------------- *)
(* C14                                                                     *)
(* ---------------------------------------------------------------------- *)
\* C14 (failed run): the step in which a run's traversal raises records
\* status "error" and leaves the row (stored state, summary, report text)
\* as it was.
C14_ErrorKeepsRow ==
    [][\A j \in 1..MaxJobs :
          (jobs[j].pc = "read" /\ jobs'[j].pc = "failed") =>
             /\ status' = "error"
             /\ row' = row]_vars

\* a run on a stored state with candidates has failed: the status is
\* "error" and the row still holds that state and its summary
C14_Witness ==
    \E j \in 1..MaxJobs :
       /\ jobs[j].pc = "failed"
       /\ status = "error"
       /\ Truthy(jobs[j].prior.candidates)
       /\ row.data_json = Some(Dumps(jobs[j].prior))
       /\ row.summary = jobs[j].prior.summary

(* ---------------------------------------------------------------------- *)
(* C15                                                                     *)
(* ---------------------------------------------------------------------- *)
\* the invocation in progress was made with nothing: no inputs, no prior
\* state, no decision
C15_Case ==
    /\ pc # "idle"
    /\ call = [inputs |-> None, prior_state |-> None, user_decision |-> None]

\* C15 (empty call): a call with inputs, prior state and decision all
\* absent makes no search, does not raise, ends at finish and returns a
\* state with no plan, no candidates and awaiting_user false.
C15_EmptyCall ==
    C15_Case =>
        /\ searchLog = <<>>
        /\ ~Truthy(st.plan)
        /\ ~Truthy(st.candidates)
        /\ pc # "raised"
        /\ pc \in {"ingest", "planner", "searcher", "finish", "END"}
        /\ Done => /\ trace = <<"ingest", "planner", "searcher", "finish">>
                   /\ st.plan = None
                   /\ st.candidates = None
                   /\ st.awaiting_user = Some(FALSE)

C15_Witness ==
    /\ C15_Case
    /\ Done
    /\ Terminal = "finish"
    /\ st.awaiting_user = Some(FALSE)
    /\ st.summary = Some(MsgNoCandidates)

(* ---------------------------------------------------------------------- *)
(* C16                                                                     *)
(* ---------------------------------------------------------------------- *)
\* the routing table of the claim, on the state the searcher leaves
C16_Table(s) ==
    LET sel == TruthyRec(s.selected)
        d == NormDecision(s)
        none == CandidatesOf(s) = <<>>
    IN  CASE sel /\ d = DecCollect -> "collector"
          [] sel /\ d = DecReport -> "reporter"
          [] ~sel /\ none -> "finish"
          [] ~sel /\ ~none /\ d = <<>> -> "ask"
          [] ~sel /\ ~none /\ d # <<>> -> "decider"
          [] sel /\ d \notin {DecCollect, DecReport} -> "finalize"

\* C16 (routing after searcher): the node that runs after searcher is the
\* one the priority table gives for selected, candidates and the normalised
\* decision of the state the searcher leaves.
C16_RoutingAfterSearch ==
    [][(pc = "searcher" /\ pc' # "searcher") => pc' = C16_Table(st')]_vars

\* a resumed call with a selected candidate, candidates on the list and an
\* affirmative decision has been routed to finalize, not to decider
C16_Witness ==
    /\ trace = <<"ingest", "planner", "searcher">>
    /\ pc = "finalize"
    /\ TruthyRec(st.selected)
    /\ CandidatesOf(st) # <<>>
    /\ NormDecision(st) \in YesTokens

(* ---------------------------------------------------------------------- *)
(* C17                                                                     *)
(* ---------------------------------------------------------------------- *)
C17_TerminalNodes == {"ask", "reporter", "finalize", "finish"}

C17_Opening == <<"ingest", "planner", "searcher">>

\* C17 (one terminating traversal): the nodes an invocation has executed
\* start with ingest, planner, searcher in that order, no node occurs
\* twice (so decider and collector at most once and ingest never again), a
\* terminal node is the last node executed and the traversal is over once
\* it has run, a traversal that is over has ended in a terminal node, and a
\* traversal that is not over is about to run a node it has not run yet.
C17_OneTraversal ==
    pc # "idle" =>
        /\ \A i \in 1..Len(trace) :
              /\ i <= 3 => trace[i] = C17_Opening[i]
              /\ i > 3 => trace[i] \in {"decider", "collector"} \cup C17_TerminalNodes
              /\ \A j \in 1..Len(trace) : i # j => trace[i] # trace[j]
              /\ trace[i] \in C17_TerminalNodes => (i = Len(trace) /\ Ended)
        /\ Ended => Terminal \in C17_TerminalNodes
        /\ ~Ended => /\ pc \in {"ingest", "planner", "searcher", "decider", "collector"}
                              \cup C17_TerminalNodes
                     /\ ~Visited(pc)
                     /\ pc = "reporter" => GenerateText(llm) # {}

\* the longest traversal: all of decider, collector and reporter ran
C17_Witness ==
    /\ Done
    /\ trace = <<"ingest", "planner", "searcher", "decider", "collector", "reporter">>

(* ---------------------------------------------------------------------- *)
(* C18                                                                     *)
(* ---------------------------------------------------------------------- *)
\* the searcher's condition as the claim words it, on the state it receives
C18_MustSearch == ~Truthy(st.candidates) /\ Truthy(st.inputs)

\* the one search pass of a searching searcher: the built queries with
\* maxResults = 5
C18_Pass(found) ==
    [kind |-> "initial", queries |-> MakeQueries(st.inputs),
     max_results |-> 5, found |-> found]

\* C18 (guarded searcher): the searcher searches exactly when candidates is
\* absent or empty and inputs is present; it then makes one pass over
\* buildQueries(inputs) with maxResults = 5, stores the queries and the
\* found candidates and sets current_index to 0, changing nothing else; in
\* every other case it makes no pass and leaves the state as it is.
C18_GuardedSearcher ==
    [][(pc = "searcher" /\ pc' # "searcher") =>
          IF C18_MustSearch
          THEN /\ Truthy(st'.candidates) \/ st'.candidates = Some(<<>>)
               /\ searchLog' = <<C18_Pass(Len(CandidatesOf(st')))>>
               /\ st' = [st EXCEPT !.queries = Some(MakeQueries(st.inputs)),
                                   !.candidates = st'.candidates,
                                   !.current_index = Some(0)]
          ELSE /\ st' = st
               /\ searchLog' = <<>>]_vars

\* a resumed call brought inputs again for a state that already has
\* candidates and a moved index: the searcher has run without a pass and
\* the list, the index and the queries are those of the stored state
C18_Witness ==
    /\ trace = C17_Opening
    /\ IsSet(call.inputs)
    /\ Truthy(st.inputs)
    /\ Truthy(persisted.candidates)
    /\ IndexOf(persisted) > 0
    /\ searchLog = <<>>
    /\ st.candidates = persisted.candidates
    /\ st.current_index = persisted.current_index
    /\ st.queries = persisted.queries

(* ---------------------------------------------------------------------- *)
(* C19                                                                     *)
(* ---------------------------------------------------------------------- *)
\* the traversal started on a state with no selected candidate, a negative
\* decision and a further candidate after the one on offer
C19_Case ==
    /\ pc \notin {"idle", "ingest"}
    /\ ~TruthyRec(pre.selected)
    /\ NormDecision(pre) \in NoTokens
    /\ IndexOf(pre) + 1 < Len(CandidatesOf(pre))

\* C19 (negative decision within bounds): such a traversal makes no search
\* and does not raise; it goes ingest, planner, searcher, decider, ask and
\* returns the state it started on with current_index one higher and
\* awaiting_user true: candidates, selected, queries, plan and every other
\* field are unchanged.
C19_NextCandidate ==
    C19_Case =>
        /\ searchLog = <<>>
        /\ pc # "raised"
        /\ Done =>
              /\ trace = <<"ingest", "planner", "searcher", "decider", "ask">>
              /\ st = [pre EXCEPT !.current_index = Some(IndexOf(pre) + 1),
                                  !.awaiting_user = Some(TRUE)]
              /\ st.selected = None

\* the second candidate of a list of two is now on offer
C19_Witness ==
    /\ C19_Case
    /\ Done
    /\ Terminal = "ask"
    /\ IndexOf(pre) = 0
    /\ IndexOf(st) = 1
    /\ Len(CandidatesOf(st)) = 2
    /\ st.awaiting_user = Some(TRUE)

(* ---------------------------------------------------------------------- *)
(* C20                                                                     *)
(* ---------------------------------------------------------------------- *)
\* the text of an identity field, empty when there is none
C20_Field(s, k) == OrEmpty(Get(OrEmptyDict(s.inputs), k))

\* the existing queries followed by "<first_name> <last_name> profile" and
\* "<first_name> <last_name> resume"
C20_Queries(s) ==
    OrEmpty(s.queries)
    \o << C20_Field(s, "first_name") \o <<" ">> \o C20_Field(s, "last_name") \o <<" profile">>,
          C20_Field(s, "first_name") \o <<" ">> \o C20_Field(s, "last_name") \o <<" resume">> >>

\* the decider runs on a negative decision with no further candidate
C20_Exhausts ==
    /\ pc = "decider"
    /\ ~TruthyRec(st.selected)
    /\ NormDecision(st) \in NoTokens
    /\ ~(IndexOf(st) + 1 < Len(CandidatesOf(st)))

\* C20 (broadened retry): a decider step on a negative decision that
\* exhausts the list makes one search pass over the existing queries
\* followed by the "profile" and "resume" queries with maxResults = 3; when
\* the pass finds a candidate the step replaces candidates by what it
\* found, sets current_index to 0 and awaiting_user to true, changes no
\* other field (selected stays absent) and hands over to ask.
C20_BroadenedRetry ==
    [][C20_Exhausts =>
          /\ Len(searchLog') = Len(searchLog) + 1
          /\ LET pass == searchLog'[Len(searchLog')]
             IN  /\ pass.kind = "broadened"
                 /\ pass.queries = C20_Queries(st)
                 /\ pass.max_results = 3
                 /\ pass.found > 0 =>
                       /\ Len(CandidatesOf(st')) = pass.found
                       /\ st' = [st EXCEPT !.candidates = st'.candidates,
                                           !.current_index = Some(0),
                                           !.awaiting_user = Some(TRUE)]
                       /\ st'.selected = None
                       /\ pc' = "ask"]_vars

\* a traversal has ended at ask after a broadened pass that found
\* candidates: the list is a new one, the index is back at 0
C20_Witness ==
    /\ Done
    /\ trace = <<"ingest", "planner", "searcher", "decider", "ask">>
    /\ BroadenedPasses # {}
    /\ \A i \in BroadenedPasses : searchLog[i].found > 0
    /\ Truthy(pre.candidates)
    /\ st.candidates # pre.candidates
    /\ IndexOf(pre) > 0
    /\ st.current_index = Some(0)
    /\ st.awaiting_user = Some(TRUE)
    /\ st.selected = None

(* ---------------------------------------------------------------------- *)
(* C21                                                                     *)
(* ---------------------------------------------------------------------- *)
\* C21 (queries of the last pass): when a traversal in which a search pass
\* ran has ended, the queries field of its state is the list of queries of
\* the most recent pass; after a broadened retry that list ends with the
\* "profile" and "resume" queries.
C21_QueriesOfLastPass ==
    (Done /\ searchLog # <<>>) =>
        st.queries = Some(searchLog[Len(searchLog)].queries)

(* ---------------------------------------------------------------------- *)
(* C22                                                                     *)
(* ---------------------------------------------------------------------- *)
\* a decision that is given and is neither affirmative nor negative
C22_Other(s) ==
    /\ NormDecision(s) # <<>>
    /\ NormDecision(s) \notin {<<"y", "e", "s">>, <<"y">>, <<"m", "a", "t", "c", "h">>,
                               <<"t", "r", "u", "e">>, <<"n", "o">>, <<"n">>,
                               <<"n", "e", "x", "t">>, <<"f", "a", "l", "s", "e">>}

\* the traversal started on a state with candidates, no selected candidate
\* and such a decision
C22_Case ==
    /\ pc \notin {"idle", "ingest"}
    /\ ~TruthyRec(pre.selected)
    /\ CandidatesOf(pre) # <<>>
    /\ C22_Other(pre)

\* C22 (unrecognised decision): a traversal that started on a state with
\* candidates, no selected candidate and a decision that is neither
\* affirmative nor negative ("collect" and "report" included) does not
\* raise, searches nothing, goes through decider to ask and returns the
\* state it started on with awaiting_user true: candidates, current_index,
\* selected, summary and report are unchanged.
C22_Unrecognised ==
    C22_Case =>
        /\ pc # "raised"
        /\ searchLog = <<>>
        /\ Done =>
              /\ trace = <<"ingest", "planner", "searcher", "decider", "ask">>
              /\ st = [pre EXCEPT !.awaiting_user = Some(TRUE)]
              /\ st.selected = None

\* "collect" came for a state that offers a candidate and has none
\* selected: the traversal has ended at ask
C22_Witness ==
    /\ C22_Case
    /\ Done
    /\ NormDecision(pre) = DecCollect
    /\ Terminal = "ask"
    /\ st.awaiting_user = Some(TRUE)
    /\ st.candidates = pre.candidates
    /\ st.current_index = pre.current_index

(* ---------------------------------------------------------------------- *)
(* C23                                                                     *)
(* ---------------------------------------------------------------------- *)
\* a title was fetched: the page was fetched and has a non-blank title
C23_Fetched ==
    /\ fnIn.outcome.kind = "title"
    /\ \E i \in 1..Len(fnIn.outcome.text) : fnIn.outcome.text[i] # " "

\* the candidate's own title is absent or empty
C23_Untitled == Val(fnIn.state.selected).title \in {None, Some(<<>>)}

\* C23 (enrichment): the details the collector stores equal the selected
\* candidate in every field, except that title is the fetched title when a
\* title was fetched and the candidate's own title is absent or empty; a
\* failed fetch of any kind leaves the candidate as it is, a non-empty
\* title is never overwritten, the candidate itself is not changed and
\* details.url = selected.url.
C23_Enrichment ==
    fnPc = "done" =>
        LET c == Val(fnIn.state.selected)
            d == Val(fnOut.details)
        IN  /\ IsSet(fnOut.details)
            /\ fnOut.selected = fnIn.state.selected
            /\ d.url = c.url
            /\ d.snippet = c.snippet
            /\ d.source_query = c.source_query
            /\ d.title = IF C23_Fetched /\ C23_Untitled
                         THEN Some(Strip(fnIn.outcome.text))
                         ELSE c.title
            /\ ~C23_Fetched => d = c

\* a titled candidate was collected while the page had another title
C23_Witness ==
    /\ fnPc = "done"
    /\ C23_Fetched
    /\ ~C23_Untitled
    /\ Val(fnOut.details) = Val(fnIn.state.selected)
    /\ Val(fnOut.details).title = Some(<<"T">>)

(* ---------------------------------------------------------------------- *)
(* C24                                                                     *)
(* ---------------------------------------------------------------------- *)
\* the node routed to after collector
C24_AfterCollector ==
    IF NormDecision(st) \in {<<"y", "e", "s">>, <<"y">>, <<"m", "a", "t", "c", "h">>,
                             <<"t", "r", "u", "e">>}
    THEN "reporter" ELSE "finalize"

\* the traversal started on a state with a selected candidate and the
\* decision "collect"
C24_Case ==
    /\ pc \notin {"idle", "ingest"}
    /\ TruthyRec(pre.selected)
    /\ NormDecision(pre) = DecCollect

\* C24 (collect only): after collector the traversal goes to reporter when
\* the decision is affirmative and to finalize otherwise; a traversal that
\* started with "collect" on a state with a selected candidate goes
\* searcher, collector, finalize without a search or a raise and returns
\* the starting state with details refreshed from the selected candidate
\* and awaiting_user false: report, selected, candidates and current_index
\* are unchanged.
C24_CollectOnly ==
    /\ \A i \in 1..Len(trace) :
          trace[i] = "collector" =>
             IF i < Len(trace) THEN trace[i + 1] = C24_AfterCollector
             ELSE pc = C24_AfterCollector
    /\ C24_Case =>
          /\ pc # "raised"
          /\ searchLog = <<>>
          /\ Done =>
                /\ trace = <<"ingest", "planner", "searcher", "collector", "finalize">>
                /\ TruthyRec(st.details)
                /\ Val(st.details).url = Val(pre.selected).url
                /\ st = [pre EXCEPT !.details = st.details,
                                    !.awaiting_user = Some(FALSE)]
                /\ st.report = pre.report

\* "collect" came for a record that has a report and details with an
\* empty title: the details now carry the fetched title, the report is
\* the old one
C24_Witness ==
    /\ C24_Case
    /\ Done
    /\ Terminal = "finalize"
    /\ Truthy(pre.report)
    /\ st.report = pre.report
    /\ st.details # pre.details
    /\ st.awaiting_user = Some(FALSE)

(* ---------------------------------------------------------------------- *)
(* C25                                                                     *)
(* ---------------------------------------------------------------------- *)
\* a state with a report has a selected candidate and details
C25_ReportHasBasis(s) ==
    Truthy(s.report) => (TruthyRec(s.selected) /\ TruthyRec(s.details))

\* C25 (report only by reporter): in the stored state and in the working
\* state a report comes with a selected candidate and details; reporter
\* runs only with a selected candidate; and as long as a traversal has not
\* run reporter its report is the one of the state it started on, which
\* for a resumed call is the stored one.
C25_ReportOnlyByReporter ==
    /\ C25_ReportHasBasis(persisted)
    /\ C25_ReportHasBasis(st)
    /\ (pc = "reporter" \/ Visited("reporter")) => TruthyRec(st.selected)
    /\ (pc \notin {"idle", "ingest"} /\ ~Visited("reporter")) =>
          /\ st.report = pre.report
          /\ IsSet(call.prior_state) => pre.report = persisted.report

\* a traversal without reporter has ended on a record that has a report
C25_Witness ==
    /\ Done
    /\ ~Visited("reporter")
    /\ Truthy(persisted.report)
    /\ IsSet(call.prior_state)
    /\ st.report = persisted.report
    /\ Terminal = "finalize"

(* ---------------------------------------------------------------------- *)
(* C26                                                                     *)
(* ---------------------------------------------------------------------- *)
\* the traversal in progress has set selected
C26_Selects == pc # "idle" /\ ~TruthyRec(pre.selected) /\ TruthyRec(st.selected)

\* C26 (only an offered candidate): a traversal sets selected only when
\* it resumes a stored state whose traversal ended with awaiting_user
\* true, makes no search of its own, and selects the candidate that was at
\* current_index of that stored state.
C26_OnlyOffered ==
    C26_Selects =>
        /\ IsSet(call.prior_state)
        /\ TruthyBool(persisted.awaiting_user)
        /\ prev.terminal = "ask"
        /\ searchLog = <<>>
        /\ CandidatesOf(persisted) # <<>>
        /\ IndexOf(persisted) < Len(CandidatesOf(persisted))
        /\ st.selected = Some(Offered(persisted))

(* ---------------------------------------------------------------------- *)
(* C27                                                                     *)
(* ---------------------------------------------------------------------- *)
\* a state that asks has a concrete candidate on offer
C27_AsksAbout(s) ==
    TruthyBool(s.awaiting_user) =>
        /\ ~TruthyRec(s.selected)
        /\ CandidatesOf(s) # <<>>
        /\ IsSet(s.current_index)
        /\ 0 <= IndexOf(s)
        /\ IndexOf(s) < Len(CandidatesOf(s))

\* C27 (something on offer): in every state a traversal returns, and so in
\* every stored state, awaiting_user true comes with no selected
\* candidate, a non-empty candidate list and current_index inside it.
C27_CandidateOnOffer ==
    /\ C27_AsksAbout(persisted)
    /\ Done => C27_AsksAbout(st)

\* the stored state asks about the second candidate of two
C27_Witness ==
    /\ pc = "idle"
    /\ TruthyBool(persisted.awaiting_user)
    /\ Len(CandidatesOf(persisted)) = 2
    /\ IndexOf(persisted) = 1
    /\ prev.terminal = "ask"

(* ---------------------------------------------------------------------- *)
(* C28                                                                     *)
(* ---------------------------------------------------------------------- *)
\* current_index is inside a non-empty candidate list
C28_IndexValid(s) ==
    CandidatesOf(s) # <<>> =>
        /\ IsSet(s.current_index)
        /\ 0 <= IndexOf(s)
        /\ IndexOf(s) < Len(CandidatesOf(s))

\* C28 (index in range): in the stored state and in the working state of
\* every traversal current_index is a valid index of a non-empty candidate
\* list, also after an exhausted broadened retry, and the decider's
\* candidates[current_index] never raises.
C28_IndexInRange ==
    /\ C28_IndexValid(persisted)
    /\ C28_IndexValid(st)
    /\ pc = "decider" => ~DeciderRaises(st)
    /\ pc = "raised" => Terminal # "decider"

\* the stored state is one left by an exhausted broadened retry on the
\* last of two candidates
C28_Witness ==
    /\ pc = "idle"
    /\ prev.terminal = "finish"
    /\ persisted.summary = Some(MsgExhausted)
    /\ Len(CandidatesOf(persisted)) = 2
    /\ IndexOf(persisted) = 1
    /\ broadened > 0

(* ---------------------------------------------------------------------- *)
(* C29                                                                     *)
(* ---------------------------------------------------------------------- *)
\* the summary of a state with a selected candidate is the candidate's
\* title when that is non-empty and its url otherwise
C29_SummaryOfSelected(s) ==
    TruthyRec(s.selected) =>
        /\ s.summary = IF Val(s.selected).title \notin {None, Some(<<>>)}
                       THEN Val(s.selected).title
                       ELSE Some(Val(s.selected).url)
        /\ s.summary \notin {Some(MsgExhausted), Some(MsgNoCandidates)}

\* C29 (summary of the selection): in the stored state and in the working
\* state of every traversal a selected candidate comes with its title, or
\* its url when the title is empty, as summary, never with a no-match
\* message; and a traversal that does not run decider leaves a summary
\* that was set as it was (collector, finalize and finish do not overwrite
\* it).
C29_SummaryMatchesSelected ==
    /\ C29_SummaryOfSelected(persisted)
    /\ C29_SummaryOfSelected(st)
    /\ (pc \notin {"idle", "ingest"} /\ Truthy(pre.summary) /\ ~Visited("decider"))
          => st.summary = pre.summary

\* an affirmative decision came after an exhausted retry: the candidate
\* without a title is selected and the exhausted message has given way to
\* its url
C29_Witness ==
    /\ Done
    /\ persisted.summary = Some(MsgExhausted)
    /\ pre.summary = Some(MsgExhausted)
    /\ TruthyRec(st.selected)
    /\ ~Truthy(Val(st.selected).title)
    /\ st.summary = Some(Val(st.selected).url)

(* ---------------------------------------------------------------------- *)
(* C30                                                                     *)
(* ---------------------------------------------------------------------- *)
C30_DecisionNodes == {"decider", "collector", "reporter"}

\* C30 (no stale decision): the state ingest produces is the prior state
\* with the inputs and the decision of the current call laid over it and
\* nothing else changed, and a call that supplies no decision is routed as
\* having none: it runs none of decider, collector and reporter, whatever
\* decision the earlier traversal of the stored state was given.
C30_NoStaleDecision ==
    (pc \notin {"idle", "ingest"} /\ IsSet(call.prior_state)) =>
        /\ pre = [Val(call.prior_state) EXCEPT
                     !.inputs = IF IsSet(call.inputs) THEN call.inputs ELSE @,
                     !.user_decision = IF IsSet(call.user_decision)
                                       THEN call.user_decision ELSE @]
        /\ ~IsSet(call.user_decision) =>
              /\ pc \notin C30_DecisionNodes
              /\ \A n \in C30_DecisionNodes : ~Visited(n)

(* ---------------------------------------------------------------------- *)
(* C31                                                                     *)
(* ---------------------------------------------------------------------- *)
\* the stored state as _db_awaiting_user reads it
C31_Stored ==
    IF row.exists /\ IsSet(row.data_json) THEN Loads(Val(row.data_json))
    ELSE EmptyState

\* no run is in flight and the run that finished last did not fail
C31_Settled ==
    /\ InFlight = {}
    /\ \E j \in 1..MaxJobs : jobs[j].last /\ jobs[j].pc = "done"

\* the registry entry agrees with the runs and with the stored state
C31_Agrees ==
    /\ InFlight # {} => status = "running"
    /\ C31_Settled =>
          status = (IF TruthyBool(C31_Stored.awaiting_user) THEN "awaiting_user"
                    ELSE "done")

\* every run so far was scheduled while no other run was in flight
C31_Serialized == \A j \in 1..MaxJobs : jobs[j].serial

\* C31 as stated (status registry under every interleaving): the entry is
\* "running" whenever a run for the record is in flight, and when none is
\* and the last run did not fail it is "awaiting_user" exactly if the
\* stored state's awaiting_user is true and "done" otherwise.
C31_RegistryConsistent == C31_Agrees

\* C31 amended (status registry, runs serialized): as long as every run of
\* the record was scheduled while no other run was in flight, the entry is
\* "running" whenever a run is in flight, and when none is and the last run
\* did not fail it is "awaiting_user" exactly if the stored state's
\* awaiting_user is true and "done" otherwise.
C31_SerializedConsistent == C31_Serialized => C31_Agrees

\* two runs, one after the other: the search offered a candidate, the
\* negative decision moved on to the next one; nothing is in flight and the
\* entry is "awaiting_user" with the stored state awaiting the user
C31_Witness ==
    /\ C31_Serialized
    /\ C31_Settled
    /\ jobs[1].pc = "done" /\ jobs[2].pc = "done" /\ jobs[2].last
    /\ IsSet(jobs[2].decision)
    /\ Lower(Strip(Val(jobs[2].decision))) \in NoTokens
    /\ IndexOf(C31_Stored) = 1
    /\ TruthyBool(C31_Stored.awaiting_user)
    /\ status = "awaiting_user"
====
